---- MODULE Spec2Model ----
(***************************************************************************)
(* Model of lopocs/cli.py: the `load` command (_load) and the spatial      *)
(* reference resolver (proj42epsg).                                        *)
(*                                                                         *)
(* Python strings are sequences of one-character strings, so that          *)
(* str.split, str.find, str.join and re.search are computed, not assumed.  *)
(* Numbers: coordinates of the pdal summary are integers in thousandths,   *)
(* offsets are integers in hundredths (the result of round(x, 2)), scales  *)
(* are integers in millionths.                                             *)
(***************************************************************************)
EXTENDS Integers, Sequences, FiniteSets, TLC

VARIABLES
    pc,             \* position of _load
    args,           \* arguments of _load: extension, table, column, server_url
    table,          \* local `table` (rebound at line 105)
    summary,        \* parsed output of `pdal info --summary`
    scale,          \* <<scale_x, scale_y, scale_z>>
    offset,         \* <<offset_x, offset_y, offset_z>>
    schema_tab,     \* <<schema, tab>> of line 142
    srid,           \* result of proj42epsg at line 143
    json_pipeline,  \* the pipeline description of lines 145-176
    effects,        \* external calls made so far, in order
    raised,         \* exception that ended the run, "None" while there is none
    lpsession,      \* Session(table, column) of line 208
    bbox,           \* bounding box read back from storage, lines 216-220
    cache_file,     \* cache filename of lines 221-229
    proj_call,      \* arguments of a call of proj42epsg
    proj_ret,       \* its return value and whether the epsg file was opened
    cache_in,       \* two argument tuples of the cache filename
    cache_out       \* the two filenames

vars == <<pc, args, table, summary, scale, offset, schema_tab, srid,
          json_pipeline, effects, raised, lpsession, bbox, cache_file,
          proj_call, proj_ret, cache_in, cache_out>>

loadVars == <<pc, args, table, summary, scale, offset, schema_tab, srid,
              json_pipeline, effects, raised, lpsession, bbox, cache_file>>

\* Bounds of the model
MaxLines == 2      \* lines in the epsg definitions file
MaxK == 2          \* summary coordinates range over 5 * (-MaxK..MaxK) thousandths
MaxB == 1          \* stored bounding-box scalars range over -MaxB..MaxB

\* Python None, distinct from every character sequence
None == <<"None">>

Digits == {"0", "1", "2", "3", "4", "5", "6", "7", "8", "9"}

\* str.find(sub) != -1
Contains(line, sub) ==
    \E i \in 1..(Len(line) - Len(sub) + 1) :
        SubSeq(line, i, i + Len(sub) - 1) = sub

\* positions (i, j) of a match of '<(\d+)>' in line: line[i] = '<', digits, line[j] = '>'
CodeMatches(line) ==
    {m \in (1..Len(line)) \X (1..Len(line)) :
        /\ m[2] > m[1] + 1
        /\ line[m[1]] = "<"
        /\ line[m[2]] = ">"
        /\ \A k \in (m[1] + 1)..(m[2] - 1) : line[k] \in Digits}

\* re.search('<(\d+)>', line): group 1 of the leftmost match, None without a match
ReSearchCode(line) ==
    IF CodeMatches(line) = {} THEN None
    ELSE LET m == CHOOSE x \in CodeMatches(line) :
                      \A y \in CodeMatches(line) : x[1] <= y[1]
         IN  SubSeq(line, m[1] + 1, m[2] - 1)

\* code = '4326'
DefaultCode == <<"4", "3", "2", "6">>

\* ScanEpsg without its `break`: the last matching line wins
RECURSIVE ScanEpsg_NoBreak(_, _, _)
ScanEpsg_NoBreak(f, p_out, i) ==
    IF i > Len(f) THEN DefaultCode
    ELSE IF Contains(f[i], p_out) /\ ReSearchCode(f[i]) # None
              /\ ScanEpsg_NoBreak(f, p_out, i + 1) = DefaultCode
         THEN ReSearchCode(f[i])
         ELSE ScanEpsg_NoBreak(f, p_out, i + 1)

\* the scan `for line in f` from line i on, with the `break` at the first line
\* that contains p_out and matches the pattern
RECURSIVE ScanEpsg(_, _, _)
ScanEpsg(f, p_out, i) ==
    IF i > Len(f) THEN DefaultCode
    ELSE IF Contains(f[i], p_out) /\ ReSearchCode(f[i]) # None
         THEN ReSearchCode(f[i])
         ELSE ScanEpsg(f, p_out, i + 1)

\* cstype of lines 303-306
CsType(p_in) == IF p_in.IsGeographic = 1 THEN "GEOGCS" ELSE "PROJCS"

\* proj42epsg(proj4, epsg, forceProj4); p_in is what ImportFromProj4 made of
\* the string: import status, IsLocal, IsGeographic, authority name and code
\* per category, WKT and PROJ exports
proj42epsg(p_in, epsg, forceProj4) ==
    IF p_in.s = 5 THEN [ret |-> DefaultCode, opened |-> FALSE]
    ELSE IF p_in.IsLocal = 1 THEN [ret |-> p_in.wkt, opened |-> FALSE]
    ELSE LET cstype == CsType(p_in)
             an == p_in.AuthorityName[cstype]
             ac == p_in.AuthorityCode[cstype]
             p_out == p_in.proj4
         IN  IF an # None /\ ac # None THEN [ret |-> ac, opened |-> FALSE]
             ELSE IF p_out # <<>>
                  THEN IF forceProj4 THEN [ret |-> p_out, opened |-> FALSE]
                       ELSE [ret |-> ScanEpsg(epsg, p_out, 1), opened |-> TRUE]
                  ELSE [ret |-> DefaultCode, opened |-> FALSE]

\* ------------------------------------------------------------------------
\* proj42epsg on its own: every parsed reference, definitions file and flag

\* <<x1, ..., xk>> over S with k <= n
SeqsUpTo(S, n) == UNION {[1..k -> S] : k \in 0..n}

\* What SpatialReference.ImportFromProj4 can make of a proj4 string:
\* s is the OGR error code (0 none, 5 corrupt data, 6 failure)
ParsedRefs ==
    [s : {0, 5, 6},
     IsLocal : {0, 1},
     IsGeographic : {0, 1},
     AuthorityName : [{"GEOGCS", "PROJCS"} -> {None, <<"E", "P", "S", "G">>}],
     AuthorityCode : [{"GEOGCS", "PROJCS"} -> {None, <<"2", "1", "5", "4">>}],
     wkt : {<<"L", "O", "C", "A", "L", "_", "C", "S">>},
     proj4 : {<<>>, <<"a">>, <<"a", "b">>}]

\* Lines a proj epsg definitions file can hold: a comment, definitions, a line
\* with an empty bracket before its code
EpsgLines ==
    {<<"#", "a">>,
     <<"<", "1", ">", "a">>,
     <<"<", "2", ">", "a", "b">>,
     <<"b", "<", ">", "a", "<", "1", "2", ">">>,
     <<"<", "3", ">", "b">>}

EpsgFiles == SeqsUpTo(EpsgLines, MaxLines)

NotReturned == [ret |-> None, opened |-> FALSE]

\* the variables of _load while only proj42epsg runs
NoLoad ==
    /\ args = <<>>
    /\ table = <<>>
    /\ summary = <<>>
    /\ scale = <<>>
    /\ offset = <<>>
    /\ schema_tab = <<>>
    /\ srid = None
    /\ json_pipeline = <<>>
    /\ effects = <<>>
    /\ raised = "None"
    /\ lpsession = <<>>
    /\ bbox = <<>>
    /\ cache_file = <<>>

NoProj == proj_call = <<>> /\ proj_ret = NotReturned

NoCache == cache_in = <<>> /\ cache_out = <<>>

InitProj ==
    /\ pc = "proj42epsg"
    /\ proj_call \in [proj4 : ParsedRefs, epsg : EpsgFiles, forceProj4 : BOOLEAN]
    /\ proj_ret = NotReturned
    /\ NoLoad
    /\ NoCache

CallProj42epsg ==
    /\ pc = "proj42epsg"
    /\ proj_ret' = proj42epsg(proj_call.proj4, proj_call.epsg, proj_call.forceProj4)
    /\ pc' = "proj42epsg_return"
    /\ UNCHANGED <<args, table, summary, scale, offset, schema_tab, srid,
                   json_pipeline, effects, raised, lpsession, bbox, cache_file,
                   proj_call, cache_in, cache_out>>

NextProj == CallProj42epsg

SpecProj == InitProj /\ [][NextProj]_vars

\* ---- C1
ProjReturned == pc = "proj42epsg_return"

HasAuthority(p) ==
    /\ p.AuthorityName[IF p.IsGeographic = 1 THEN "GEOGCS" ELSE "PROJCS"] # None
    /\ p.AuthorityCode[IF p.IsGeographic = 1 THEN "GEOGCS" ELSE "PROJCS"] # None

\* lines of f that contain sub
LinesWith(f, sub) == {i \in 1..Len(f) : Contains(f[i], sub)}

\* lines of f that contain sub and hold a bracket-enclosed integer
CodedLinesWith(f, sub) == {i \in LinesWith(f, sub) : ReSearchCode(f[i]) # None}

Least(S) == CHOOSE i \in S : \A j \in S : i <= j

Upper == <<"A", "B", "C", "D", "E", "F", "G", "H", "I", "J", "K", "L", "M",
           "N", "O", "P", "Q", "R", "S", "T", "U", "V", "W", "X", "Y", "Z">>
LowerOf == <<"a", "b", "c", "d", "e", "f", "g", "h", "i", "j", "k", "l", "m",
             "n", "o", "p", "q", "r", "s", "t", "u", "v", "w", "x", "y", "z">>

\* str.lower()
Lower(str) ==
    [i \in 1..Len(str) |->
        IF \E k \in 1..26 : Upper[k] = str[i]
        THEN LowerOf[CHOOSE k \in 1..26 : Upper[k] = str[i]]
        ELSE str[i]]

\* Path.suffix: from the last '.' of the name on, '' without one
Suffix(name) ==
    IF \E i \in 1..Len(name) : name[i] = "."
    THEN LET last == CHOOSE i \in 1..Len(name) :
                        /\ name[i] = "."
                        /\ \A j \in (i + 1)..Len(name) : name[j] # "."
         IN  SubSeq(name, last, Len(name))
    ELSE <<>>

\* extension = filename.suffix[1:].lower()
Extension(filename) == Lower(Tail(Suffix(filename)))

\* str.split('.')
RECURSIVE SplitDot(_)
SplitDot(str) ==
    IF \E i \in 1..Len(str) : str[i] = "."
    THEN LET first == CHOOSE i \in 1..Len(str) :
                         /\ str[i] = "."
                         /\ \A j \in 1..(i - 1) : str[j] # "."
         IN  <<SubSeq(str, 1, first - 1)>> \o SplitDot(SubSeq(str, first + 1, Len(str)))
    ELSE <<str>>

\* lines 104-105: tablename should be always prefixed
PrefixTable(t) ==
    IF ~Contains(t, <<".">>) THEN <<"p", "u", "b", "l", "i", "c", ".">> \o t ELSE t

E57 == <<"e", "5", "7">>

\* the column name written into the pipeline and the SQL statements
Points == <<"p", "o", "i", "n", "t", "s">>

\* lines 115-120 and 135: scale triples, in millionths
GeographicScale == <<1, 1, 10000>>
ProjectedScale == <<10000, 10000, 10000>>
E57Scale == <<1000000, 1000000, 1000000>>

\* lines 204-207: the scale of the potree output schema, in millionths
PotreeScale == <<10000, 10000, 10000>>

\* Midpoint2 without the halving
Midpoint2_NoHalf(b) == 2 * (b.min + (b.max - b.min))

\* lines 122-124: min + (max - min) / 2, doubled to stay an integer (thousandths)
Midpoint2(b) == 2 * b.min + (b.max - b.min)

\* lines 126-128: round(x, 2) of x = m2 / 2000, in hundredths. A decimal tie is
\* no tie for the binary float, which lies on either side of it: both
\* neighbours are possible results.
Round2(m2) ==
    {h \in ((m2 \div 20) - 1)..((m2 \div 20) + 1) :
        20 * h - m2 <= 10 /\ m2 - 20 * h <= 10}

\* ScaleOf with the e57 override applied before the reference-based choice
ScaleOf_OverrideFirst(s, extension) ==
    IF s.srs.isgeographic THEN GeographicScale
    ELSE IF extension = E57 THEN E57Scale
    ELSE ProjectedScale

\* lines 115-120, 130-135
ScaleOf(s, extension) ==
    IF extension = E57 THEN E57Scale
    ELSE IF s.srs.isgeographic THEN GeographicScale
    ELSE ProjectedScale

\* lines 122-135: the offsets round() can produce
OffsetsOf(s, extension) ==
    IF extension = E57 THEN {<<0, 0, 0>>}
    ELSE Round2(Midpoint2(s.bounds.X)) \X Round2(Midpoint2(s.bounds.Y))
            \X Round2(Midpoint2(s.bounds.Z))

\* JsonPipeline with the reorder stage before the chipper
JsonPipeline_ReorderFirst(extension, realfilename, schema, tab, sr, sc, off) ==
    <<[type |-> <<"r", "e", "a", "d", "e", "r", "s", ".">> \o extension,
       filename |-> realfilename],
      [type |-> "filters.revertmorton"],
      [type |-> "filters.chipper", capacity |-> 400],
      [type |-> "writers.pgpointcloud",
       connection |-> "dbname={pg_name} port={pg_port} user={pg_user} password={pg_password}",
       schema |-> schema, table |-> tab, compression |-> "none",
       srid |-> sr, overwrite |-> "true", column |-> Points,
       scale_x |-> sc[1], scale_y |-> sc[2], scale_z |-> sc[3],
       offset_x |-> off[1], offset_y |-> off[2], offset_z |-> off[3]]>>

\* lines 145-176
JsonPipeline(extension, realfilename, schema, tab, sr, sc, off) ==
    <<[type |-> <<"r", "e", "a", "d", "e", "r", "s", ".">> \o extension,
       filename |-> realfilename],
      [type |-> "filters.chipper", capacity |-> 400],
      [type |-> "filters.revertmorton"],
      [type |-> "writers.pgpointcloud",
       connection |-> "dbname={pg_name} port={pg_port} user={pg_user} password={pg_password}",
       schema |-> schema, table |-> tab, compression |-> "none",
       srid |-> sr, overwrite |-> "true", column |-> Points,
       scale_x |-> sc[1], scale_y |-> sc[2], scale_z |-> sc[3],
       offset_x |-> off[1], offset_y |-> off[2], offset_z |-> off[3]]>>

\* lines 190-195: the four statements of Session.execute
IndexStatements(t) ==
    <<[sql |-> "create index using gist(geometry)", table |-> t, column |-> Points],
      [sql |-> "alter table add column morton bigint", table |-> t, column |-> <<>>],
      [sql |-> "select Morton_Update", table |-> t, column |-> Points],
      [sql |-> "create index (morton)", table |-> t, column |-> <<>>]>>

\* str() of an integer
RECURSIVE NatStr(_)
NatStr(n) ==
    LET d == <<"0", "1", "2", "3", "4", "5", "6", "7", "8", "9">>[(n % 10) + 1]
    IN  IF n < 10 THEN <<d>> ELSE NatStr(n \div 10) \o <<d>>

Str(n) == IF n < 0 THEN <<"-">> \o NatStr(0 - n) ELSE NatStr(n)

\* '_'.join(parts)
RECURSIVE JoinUnderscore(_)
JoinUnderscore(parts) ==
    IF Len(parts) = 0 THEN <<>>
    ELSE IF Len(parts) = 1 THEN parts[1]
    ELSE parts[1] \o <<"_">> \o JoinUnderscore(Tail(parts))

\* lines 221-229: "{0}_{1}_{2}_{3}_{4}.hcy"
CacheFile(t, c, lod_min, lod_max, bb) ==
    t \o <<"_">> \o c \o <<"_">> \o Str(lod_min) \o <<"_">> \o Str(lod_max)
      \o <<"_">> \o JoinUnderscore([i \in 1..Len(bb) |-> Str(bb[i])])
      \o <<".", "h", "c", "y">>

\* lines 212-213
lod_min == 0
lod_max == 5

\* ---- inputs of a run
Filenames ==
    {<<"f", ".", "l", "a", "s">>, <<"f", ".", "e", "5", "7">>, <<"f", ".", "E", "5", "7">>}

Tables ==
    {<<"p", "t", "s">>, <<"s", ".", "p", "t", "s">>, <<"a", ".", "b", ".", "c">>}

Columns == {Points, <<"p", "c">>}

ServerUrls == {"http://localhost:5000", "http://lopocs:80"}

\* bounds of one axis, in thousandths
Axis(lo, hi) == [min |-> lo, max |-> hi]

\* X[0,10] Y[0,20] Z[0,5]
ScenarioBounds == [X |-> Axis(0, 10000), Y |-> Axis(0, 20000), Z |-> Axis(0, 5000)]

SmallCoords == {5 * k : k \in (0 - MaxK)..MaxK}

SmallAxes == {Axis(lo, hi) : lo \in SmallCoords, hi \in SmallCoords} \ 
               {a \in [min : SmallCoords, max : SmallCoords] : a.min > a.max}

\* every bounding box of a summary given to the planner on its own
AllBounds == {ScenarioBounds} \cup [X : SmallAxes, Y : SmallAxes, Z : SmallAxes]

\* the bounding boxes a summary of a whole run reports
RunBounds == {ScenarioBounds, [X |-> Axis(-5, 10), Y |-> Axis(0, 5), Z |-> Axis(5, 5)]}

\* the references a summary of a whole run carries: invalid, local, with
\* authority, without
RunRefs ==
    {p \in ParsedRefs :
        /\ p.proj4 = <<"a">>
        /\ p.IsGeographic = 0
        /\ p.AuthorityName["GEOGCS"] = None /\ p.AuthorityCode["GEOGCS"] = None
        /\ (p.AuthorityName["PROJCS"] = None) = (p.AuthorityCode["PROJCS"] = None)
        /\ p.s \in {0, 5}
        /\ (p.s = 5 \/ p.IsLocal = 1) => p.AuthorityName["PROJCS"] = None
        /\ p.s = 5 => p.IsLocal = 0}

\* content of /usr/share/proj/epsg during a run
RunEpsgFiles == {<<>>, <<<<"#", "a">>, <<"<", "1", ">", "a">>>>}

Summaries(boundsSet, refs) ==
    [srs : [isgeographic : BOOLEAN, proj4 : refs], bounds : boundsSet]

\* Session.boundingbox of the stored table: six scalars, all different
StoredBoxes ==
    {[xmin |-> lo, ymin |-> lo - 1, zmin |-> lo - 2,
      xmax |-> hi, ymax |-> hi + 1, zmax |-> hi + 2] :
        lo \in (0 - MaxB)..0, hi \in 0..MaxB}

Effect(op, a) == [op |-> op, args |-> a]

Init ==
    /\ pc = "create_table"
    /\ args \in [filename : Filenames, table : Tables, column : Columns,
                 work_dir : {"work_dir"}, server_url : ServerUrls]
    /\ table = args.table
    /\ summary = <<>>
    /\ scale = <<>>
    /\ offset = <<>>
    /\ schema_tab = <<>>
    /\ srid = None
    /\ json_pipeline = <<>>
    /\ effects = <<>>
    /\ raised = "None"
    /\ lpsession = <<>>
    /\ bbox = <<>>
    /\ cache_file = <<>>
    /\ NoProj
    /\ NoCache

\* lines 94-96
CreateMetadataTable ==
    /\ pc = "create_table"
    /\ effects' = Append(effects, Effect("create_pointcloud_lopocs_table", <<>>))
    /\ pc' = "prefix_table"
    /\ UNCHANGED <<args, table, summary, scale, offset, schema_tab, srid,
                   json_pipeline, raised, lpsession, bbox, cache_file,
                   proj_call, proj_ret, cache_in, cache_out>>

\* lines 98-105
NormalizeTable ==
    /\ pc = "prefix_table"
    /\ table' = PrefixTable(table)
    /\ pc' = "pdal_info"
    /\ UNCHANGED <<args, summary, scale, offset, schema_tab, srid,
                   json_pipeline, effects, raised, lpsession, bbox, cache_file,
                   proj_call, proj_ret, cache_in, cache_out>>

\* lines 107-113: the subprocess exits non-zero (fatal), prints something that
\* is no JSON summary, or prints a summary; the effect records its exit status
PdalInfo ==
    /\ pc = "pdal_info"
    /\ \/ /\ effects' = Append(effects, Effect("pdal info", <<args.filename, 1>>))
          /\ raised' = "SystemExit"
          /\ pc' = "failed"
          /\ UNCHANGED summary
       \/ /\ effects' = Append(effects, Effect("pdal info", <<args.filename, 0>>))
          /\ raised' = "JSONDecodeError"
          /\ pc' = "failed"
          /\ UNCHANGED summary
       \/ /\ effects' = Append(effects, Effect("pdal info", <<args.filename, 0>>))
          /\ summary' \in Summaries(RunBounds, RunRefs)
          /\ pc' = "plan"
          /\ UNCHANGED raised
    /\ UNCHANGED <<args, table, scale, offset, schema_tab, srid,
                   json_pipeline, lpsession, bbox, cache_file,
                   proj_call, proj_ret, cache_in, cache_out>>

\* lines 115-135
PrecisionPlan ==
    /\ pc = "plan"
    /\ scale' = ScaleOf(summary, Extension(args.filename))
    /\ offset' \in OffsetsOf(summary, Extension(args.filename))
    /\ pc' = "split"
    /\ UNCHANGED <<args, table, summary, schema_tab, srid,
                   json_pipeline, effects, raised, lpsession, bbox, cache_file,
                   proj_call, proj_ret, cache_in, cache_out>>

\* lines 137-142: schema, tab = table.split('.')
SplitTable ==
    /\ pc = "split"
    /\ IF Len(SplitDot(table)) = 2
       THEN /\ schema_tab' = SplitDot(table)
            /\ pc' = "srid"
            /\ UNCHANGED raised
       ELSE /\ raised' = "ValueError"
            /\ pc' = "failed"
            /\ UNCHANGED schema_tab
    /\ UNCHANGED <<args, table, summary, scale, offset, srid,
                   json_pipeline, effects, lpsession, bbox, cache_file,
                   proj_call, proj_ret, cache_in, cache_out>>

\* line 143
ResolveSrid ==
    /\ pc = "srid"
    /\ \E f \in RunEpsgFiles : srid' = proj42epsg(summary.srs.proj4, f, FALSE).ret
    /\ pc' = "write_pipeline"
    /\ UNCHANGED <<args, table, summary, scale, offset, schema_tab,
                   json_pipeline, effects, raised, lpsession, bbox, cache_file,
                   proj_call, proj_ret, cache_in, cache_out>>

\* lines 145-179; json_path (lines 99-101) holds the table as it was given
WritePipeline ==
    /\ pc = "write_pipeline"
    /\ json_pipeline' = JsonPipeline(Extension(args.filename), args.filename,
                                     schema_tab[1], schema_tab[2], srid, scale, offset)
    /\ effects' = Append(effects,
                         Effect("write pipeline", <<args.work_dir, args.table, json_pipeline'>>))
    /\ pc' = "pdal_pipeline"
    /\ UNCHANGED <<args, table, summary, scale, offset, schema_tab, srid,
                   raised, lpsession, bbox, cache_file,
                   proj_call, proj_ret, cache_in, cache_out>>

\* PdalPipeline whose failure is reported but does not end the run
PdalPipeline_NoFatal ==
    /\ pc = "pdal_pipeline"
    /\ \/ effects' = Append(effects, Effect("pdal pipeline", <<args.work_dir, args.table, 1>>))
       \/ effects' = Append(effects, Effect("pdal pipeline", <<args.work_dir, args.table, 0>>))
    /\ pc' = "indexes"
    /\ UNCHANGED <<args, table, summary, scale, offset, schema_tab, srid,
                   json_pipeline, raised, lpsession, bbox, cache_file,
                   proj_call, proj_ret, cache_in, cache_out>>

\* lines 181-187; the effect records the exit status of the subprocess
PdalPipeline ==
    /\ pc = "pdal_pipeline"
    /\ \/ /\ effects' = Append(effects, Effect("pdal pipeline", <<args.work_dir, args.table, 1>>))
          /\ raised' = "SystemExit"
          /\ pc' = "failed"
       \/ /\ effects' = Append(effects, Effect("pdal pipeline", <<args.work_dir, args.table, 0>>))
          /\ pc' = "indexes"
          /\ UNCHANGED raised
    /\ UNCHANGED <<args, table, summary, scale, offset, schema_tab, srid,
                   json_pipeline, lpsession, bbox, cache_file,
                   proj_call, proj_ret, cache_in, cache_out>>

\* lines 189-196
CreateIndexes ==
    /\ pc = "indexes"
    /\ effects' = Append(effects, Effect("execute", IndexStatements(table)))
    /\ pc' = "update_metadata"
    /\ UNCHANGED <<args, table, summary, scale, offset, schema_tab, srid,
                   json_pipeline, raised, lpsession, bbox, cache_file,
                   proj_call, proj_ret, cache_in, cache_out>>

\* lines 198-202
UpdateMetadata ==
    /\ pc = "update_metadata"
    /\ effects' = Append(effects,
                         Effect("update_metadata", <<table, args.column, srid, scale, offset>>))
    /\ pc' = "add_output_schema"
    /\ UNCHANGED <<args, table, summary, scale, offset, schema_tab, srid,
                   json_pipeline, raised, lpsession, bbox, cache_file,
                   proj_call, proj_ret, cache_in, cache_out>>

\* lines 203-209; Session (lopocs.database) keeps the table and column it is
\* constructed with
AddOutputSchema ==
    /\ pc = "add_output_schema"
    /\ effects' = Append(effects,
                         Effect("add_output_schema",
                                <<table, args.column, PotreeScale, offset, srid, "potree_schema">>))
    /\ lpsession' = [table |-> table, column |-> args.column]
    /\ pc' = "boundingbox"
    /\ UNCHANGED <<args, table, summary, scale, offset, schema_tab, srid,
                   json_pipeline, raised, bbox, cache_file,
                   proj_call, proj_ret, cache_in, cache_out>>

\* lines 211-229
ReadBoundingBox ==
    /\ pc = "boundingbox"
    /\ \E fullbbox \in StoredBoxes :
          /\ bbox' = <<fullbbox.xmin, fullbbox.ymin, fullbbox.zmin,
                       fullbbox.xmax, fullbbox.ymax, fullbbox.zmax>>
          /\ effects' = Append(effects, Effect("boundingbox", <<lpsession, fullbbox>>))
    /\ cache_file' = CacheFile(lpsession.table, lpsession.column, lod_min, lod_max, bbox')
    /\ pc' = "greyhound_build"
    /\ UNCHANGED <<args, table, summary, scale, offset, schema_tab, srid,
                   json_pipeline, raised, lpsession,
                   proj_call, proj_ret, cache_in, cache_out>>

\* lines 231-234
BuildGreyhound ==
    /\ pc = "greyhound_build"
    /\ effects' = Append(effects,
                         Effect("greyhound.build_hierarchy_from_pg",
                                <<lpsession, lod_min, lod_max, bbox>>))
    /\ pc' = "write_in_cache"
    /\ UNCHANGED <<args, table, summary, scale, offset, schema_tab, srid,
                   json_pipeline, raised, lpsession, bbox, cache_file,
                   proj_call, proj_ret, cache_in, cache_out>>

\* lines 235-236
WriteInCache ==
    /\ pc = "write_in_cache"
    /\ effects' = Append(effects, Effect("greyhound.write_in_cache", <<"new_hcy", cache_file>>))
    /\ pc' = "threedtiles_build"
    /\ UNCHANGED <<args, table, summary, scale, offset, schema_tab, srid,
                   json_pipeline, raised, lpsession, bbox, cache_file,
                   proj_call, proj_ret, cache_in, cache_out>>

\* BuildTileset with the LOD bounds in the order of the cache builder
BuildTileset_LodSwapped ==
    /\ pc = "threedtiles_build"
    /\ effects' = Append(effects,
                         Effect("threedtiles.build_hierarchy_from_pg",
                                <<lpsession, args.server_url, lod_min, bbox, lod_max>>))
    /\ pc' = "write_tileset"
    /\ UNCHANGED <<args, table, summary, scale, offset, schema_tab, srid,
                   json_pipeline, raised, lpsession, bbox, cache_file,
                   proj_call, proj_ret, cache_in, cache_out>>

\* lines 238-241
BuildTileset ==
    /\ pc = "threedtiles_build"
    /\ effects' = Append(effects,
                         Effect("threedtiles.build_hierarchy_from_pg",
                                <<lpsession, args.server_url, lod_max, bbox, lod_min>>))
    /\ pc' = "write_tileset"
    /\ UNCHANGED <<args, table, summary, scale, offset, schema_tab, srid,
                   json_pipeline, raised, lpsession, bbox, cache_file,
                   proj_call, proj_ret, cache_in, cache_out>>

\* lines 243-247
WriteTileset ==
    /\ pc = "write_tileset"
    /\ effects' = Append(effects, Effect("write tileset", <<args.work_dir, "tileset.json", "hcy">>))
    /\ pc' = "done"
    /\ UNCHANGED <<args, table, summary, scale, offset, schema_tab, srid,
                   json_pipeline, raised, lpsession, bbox, cache_file,
                   proj_call, proj_ret, cache_in, cache_out>>

Next ==
    \/ CreateMetadataTable
    \/ NormalizeTable
    \/ PdalInfo
    \/ PrecisionPlan
    \/ SplitTable
    \/ ResolveSrid
    \/ WritePipeline
    \/ PdalPipeline
    \/ CreateIndexes
    \/ UpdateMetadata
    \/ AddOutputSchema
    \/ ReadBoundingBox
    \/ BuildGreyhound
    \/ WriteInCache
    \/ BuildTileset
    \/ WriteTileset

Spec == Init /\ [][Next]_vars

\* exit status of the process: sys.exit(1) in fatal, 1 for an uncaught exception
ExitStatus == IF raised = "None" THEN 0 ELSE 1

\* ------------------------------------------------------------------------
\* The Precision Planner (lines 115-135) on every summary: a run that has
\* reached line 115

InitPlan ==
    /\ pc = "plan"
    /\ args \in [filename : Filenames, table : {<<"p", "t", "s">>}, column : {Points},
                 work_dir : {"work_dir"}, server_url : {"http://localhost:5000"}]
    /\ table = PrefixTable(args.table)
    /\ summary \in Summaries(AllBounds, {p \in RunRefs : p.s = 5})
    /\ scale = <<>>
    /\ offset = <<>>
    /\ schema_tab = <<>>
    /\ srid = None
    /\ json_pipeline = <<>>
    /\ effects = <<Effect("create_pointcloud_lopocs_table", <<>>),
                   Effect("pdal info", <<args.filename, 0>>)>>
    /\ raised = "None"
    /\ lpsession = <<>>
    /\ bbox = <<>>
    /\ cache_file = <<>>
    /\ NoProj
    /\ NoCache

NextPlan == PrecisionPlan

SpecPlan == InitPlan /\ [][NextPlan]_vars

\* ------------------------------------------------------------------------
\* The cache filename (lines 221-229) on two argument tuples

CacheTables == {<<"s", ".", "a">>, <<"s", ".", "a", "_", "b">>}

CacheColumns == {<<"c">>, <<"b", "_", "c">>}

CacheArgs ==
    [table : CacheTables, column : CacheColumns,
     bbox : {<<b.xmin, b.ymin, b.zmin, b.xmax, b.ymax, b.zmax>> : b \in StoredBoxes}]

InitCache ==
    /\ pc = "cache_file"
    /\ cache_in \in CacheArgs \X CacheArgs
    /\ cache_out = <<>>
    /\ NoLoad
    /\ NoProj

ComputeCacheFiles ==
    /\ pc = "cache_file"
    /\ cache_out' = [i \in 1..2 |->
                        CacheFile(cache_in[i].table, cache_in[i].column,
                                  lod_min, lod_max, cache_in[i].bbox)]
    /\ pc' = "cache_file_done"
    /\ UNCHANGED <<args, table, summary, scale, offset, schema_tab, srid,
                   json_pipeline, effects, raised, lpsession, bbox, cache_file,
                   proj_call, proj_ret, cache_in>>

NextCache == ComputeCacheFiles

SpecCache == InitCache /\ [][NextCache]_vars

\* ------------------------------------------------------------------------
\* Properties

Ops == [i \in 1..Len(effects) |-> effects[i].op]

HasOp(op) == \E i \in 1..Len(effects) : effects[i].op = op

CountOp(op) == Cardinality({i \in 1..Len(effects) : effects[i].op = op})

\* number of '.' in a string
Dots(str) == Cardinality({i \in 1..Len(str) : str[i] = "."})

Malformed == Dots(args.table) > 1

\* positions of _load past line 142
PastSplit ==
    {"srid", "write_pipeline", "pdal_pipeline", "indexes", "update_metadata",
     "add_output_schema", "boundingbox", "greyhound_build", "write_in_cache",
     "threedtiles_build", "write_tileset", "done"}

\* positions of _load past line 105
PastPrefix == PastSplit \cup {"pdal_info", "plan", "split"}

\* C2: a table without '.' becomes "public.<table>", a table with one '.' is
\* used unchanged, and a table with more than one '.' is rejected with a
\* ConfigError without the run continuing: such a run never gets past the
\* split, and when it has ended, it ended with a subprocess failure or with a
\* ConfigError.
C2_Claim ==
    /\ (pc \in PastPrefix /\ Dots(args.table) = 0) =>
          table = <<"p", "u", "b", "l", "i", "c", ".">> \o args.table
    /\ (pc \in PastPrefix /\ Dots(args.table) = 1) => table = args.table
    /\ Malformed =>
          /\ pc \notin PastSplit
          /\ pc = "failed" => raised \in {"ConfigError", "SystemExit", "JSONDecodeError"}

ExternalCalls ==
    {"create_pointcloud_lopocs_table", "pdal info", "pdal pipeline", "execute",
     "update_metadata", "add_output_schema"}

\* C3: in a run with a malformed table (more than one '.'), no external call
\* (metadata-table creation, introspection, pipeline, storage statement) is
\* ever made.
C3_Claim == Malformed => \A i \in 1..Len(effects) : effects[i].op \notin ExternalCalls

IsE57File == args.filename \in {<<"f", ".", "e", "5", "7">>, <<"f", ".", "E", "5", "7">>}

Planned == pc = "split"

\* C4: after the planner, the scale is (1e-6, 1e-6, 1e-2) for a geographic
\* summary and (0.01, 0.01, 0.01) for any other, except for an e57 file, whose
\* scale is (1, 1, 1) and whose offsets are (0, 0, 0) whatever the summary says.
C4_Scale ==
    Planned =>
        IF IsE57File
        THEN scale = <<1000000, 1000000, 1000000>> /\ offset = <<0, 0, 0>>
        ELSE IF summary.srs.isgeographic
             THEN scale = <<1, 1, 10000>>
             ELSE scale = <<10000, 10000, 10000>>

\* an e57 file with a geographic summary and a box away from the origin
C4_Witness ==
    /\ Planned
    /\ IsE57File
    /\ summary.srs.isgeographic
    /\ summary.bounds = ScenarioBounds
    /\ scale = <<1000000, 1000000, 1000000>>

AxisOf(i) == <<summary.bounds.X, summary.bounds.Y, summary.bounds.Z>>[i]

\* C5: for a file that is not e57, each offset is a multiple of 0.01 at most
\* 0.005 away from the midpoint (min + max) / 2 of its own axis, and the box
\* X[0,10] Y[0,20] Z[0,5] gives (5.0, 10.0, 2.5).
C5_Offset ==
    (Planned /\ ~IsE57File) =>
        /\ \A i \in 1..3 :
              /\ 20 * offset[i] - (AxisOf(i).min + AxisOf(i).max) <= 10
              /\ (AxisOf(i).min + AxisOf(i).max) - 20 * offset[i] <= 10
        /\ summary.bounds = ScenarioBounds => offset = <<500, 1000, 250>>

\* scenario A: X[0,10] Y[0,20] Z[0,5] planned for a file that is not e57
C5_Witness ==
    /\ Planned
    /\ ~IsE57File
    /\ summary.bounds = ScenarioBounds
    /\ offset = <<500, 1000, 250>>

ReaderType ==
    IF args.filename = <<"f", ".", "l", "a", "s">>
    THEN <<"r", "e", "a", "d", "e", "r", "s", ".", "l", "a", "s">>
    ELSE <<"r", "e", "a", "d", "e", "r", "s", ".", "e", "5", "7">>

Assembled == json_pipeline # <<>>

\* C6: the assembled pipeline has exactly the 4 stages read (of the file's
\* format), chip with capacity 400, reorder, write, in this order; the write
\* stage carries schema and table of the normalized table name, the resolved
\* SRID, the planner's three scales and three offsets, and overwrite=true.
C6_Pipeline ==
    Assembled =>
        /\ Len(json_pipeline) = 4
        /\ json_pipeline[1].type = ReaderType
        /\ json_pipeline[2] = [type |-> "filters.chipper", capacity |-> 400]
        /\ json_pipeline[3].type = "filters.revertmorton"
        /\ json_pipeline[4].type = "writers.pgpointcloud"
        /\ json_pipeline[4].schema \o <<".">> \o json_pipeline[4].table =
              (IF Dots(args.table) = 0
               THEN <<"p", "u", "b", "l", "i", "c", ".">> \o args.table
               ELSE args.table)
        /\ Dots(json_pipeline[4].schema) = 0 /\ Dots(json_pipeline[4].table) = 0
        /\ json_pipeline[4].srid = srid
        /\ <<json_pipeline[4].scale_x, json_pipeline[4].scale_y, json_pipeline[4].scale_z>> = scale
        /\ <<json_pipeline[4].offset_x, json_pipeline[4].offset_y, json_pipeline[4].offset_z>> = offset
        /\ json_pipeline[4].overwrite = "true"

\* scenario A assembled: table "pts", geographic las file
C6_Witness ==
    /\ Assembled
    /\ args.table = <<"p", "t", "s">>
    /\ json_pipeline[4].schema = <<"p", "u", "b", "l", "i", "c">>
    /\ summary.bounds = ScenarioBounds
    /\ json_pipeline[4].offset_z = 250
    /\ json_pipeline[4].scale_x = 1

CacheDone == pc = "cache_file_done"

\* C7: two argument tuples that differ (in the table, the column or a
\* bounding-box scalar) never yield the same cache filename.
C7_Injective == (CacheDone /\ cache_in[1] # cache_in[2]) => cache_out[1] # cache_out[2]

\* the effects C8 lists, in its order
ListedOps ==
    <<"create_pointcloud_lopocs_table", "pdal pipeline", "execute", "update_metadata",
      "add_output_schema", "boundingbox", "greyhound.build_hierarchy_from_pg",
      "greyhound.write_in_cache", "threedtiles.build_hierarchy_from_pg", "write tileset">>

IsListed(op) == \E i \in 1..Len(ListedOps) : ListedOps[i] = op

EffectOf(op) == effects[CHOOSE i \in 1..Len(effects) : effects[i].op = op]

\* the box the storage returned, as the list of line 217
ReadBack ==
    LET b == EffectOf("boundingbox").args[2]
    IN  <<b.xmin, b.ymin, b.zmin, b.xmax, b.ymax, b.zmax>>

\* C8: in a completed run the listed effects occur exactly once each and in the
\* listed order; the schema statements are spatial index, add column, populate,
\* index; the cache build gets (session, 0, 5, bbox) and is written to the
\* cache filename, the tileset build gets (session, server url, 5, bbox, 0) and
\* is written to tileset.json in the working directory; bbox is the box read
\* back from storage.
C8_Order ==
    pc = "done" =>
        /\ SelectSeq(Ops, IsListed) = ListedOps
        /\ [i \in 1..4 |-> EffectOf("execute").args[i].sql] =
              <<"create index using gist(geometry)", "alter table add column morton bigint",
                "select Morton_Update", "create index (morton)">>
        /\ EffectOf("greyhound.build_hierarchy_from_pg").args = <<lpsession, 0, 5, ReadBack>>
        /\ EffectOf("greyhound.write_in_cache").args = <<"new_hcy", cache_file>>
        /\ cache_file = lpsession.table \o <<"_">> \o lpsession.column
                          \o <<"_", "0", "_", "5", "_">>
                          \o JoinUnderscore([i \in 1..6 |-> Str(ReadBack[i])])
                          \o <<".", "h", "c", "y">>
        /\ EffectOf("threedtiles.build_hierarchy_from_pg").args =
              <<lpsession, args.server_url, 5, ReadBack, 0>>
        /\ EffectOf("write tileset").args = <<args.work_dir, "tileset.json", "hcy">>

\* a completed run whose stored box is not the summary's
C8_Witness ==
    /\ pc = "done"
    /\ summary.bounds = ScenarioBounds
    /\ ReadBack = <<-1, -2, -3, 1, 2, 3>>
    /\ args.server_url = "http://lopocs:80"

FailedCall(e) ==
    \/ e.op = "pdal info" /\ e.args[2] # 0
    \/ e.op = "pdal pipeline" /\ e.args[3] # 0

\* C9: once the introspection or the pipeline subprocess has exited non-zero,
\* the run is failed with a non-zero exit status, that call is the last effect
\* there ever is (no pipeline file, pipeline execution, schema statement,
\* metadata or hierarchy build after it), and it was invoked exactly once.
C9_Abort ==
    \A i \in 1..Len(effects) :
        FailedCall(effects[i]) =>
            /\ pc = "failed"
            /\ ExitStatus # 0
            /\ i = Len(effects)
            /\ CountOp(effects[i].op) = 1

\* a run whose pipeline subprocess failed after the pipeline file was written
C9_Witness ==
    /\ pc = "failed"
    /\ HasOp("pdal pipeline")
    /\ FailedCall(effects[Len(effects)])
    /\ HasOp("write pipeline")
    /\ ~HasOp("execute")

\* C10: the column the write stage stores the patches in, the column of the
\* index and ordering statements, and the column given to update_metadata,
\* add_output_schema and the session are all the caller-supplied column.
C10_Column ==
    /\ Assembled => json_pipeline[4].column = args.column
    /\ \A i \in 1..Len(effects) :
          /\ effects[i].op = "execute" =>
                \A k \in 1..Len(effects[i].args) :
                    effects[i].args[k].column \in {<<>>, args.column}
          /\ effects[i].op \in {"update_metadata", "add_output_schema"} =>
                effects[i].args[2] = args.column
    /\ pc \in {"boundingbox", "greyhound_build", "write_in_cache", "threedtiles_build",
               "write_tileset", "done"} => lpsession.column = args.column

====
